---- MODULE Spec2Model ----
(***************************************************************************)
(* Model of experiment/flake-tracker/FlakeTracker.go: main runs runReport  *)
(* for two TestGrid tab groups, one after the other.  runReport collects   *)
(* the job summary (CollectStatus), fetches the test table of every        *)
(* flaking and every failed job (CollectFlakyTests, CollectFailedTests)    *)
(* and prints one CSV row per test of those jobs and one per passing job.  *)
(*                                                                         *)
(* Go strings that the code takes apart (job names, test names) are        *)
(* sequences of one-character strings; strings the code only compares or   *)
(* concatenates are TLA+ strings.  A nil pointer is the empty sequence and *)
(* a non-nil pointer a one-element sequence.  A nil map ranges and         *)
(* measures like an empty map and is written as the empty function.        *)
(***************************************************************************)
EXTENDS Integers, Sequences, FiniteSets, TLC

VARIABLES
    g,            \* which runReport call of main is running (1, 2)
    pc,           \* position inside main / runReport
    t,            \* the TabGroupStatus the running runReport works on
    visited,      \* keys the running `for ... range` loop has been through
    rows,         \* lines printed by the running runReport
    summaryResp,  \* what the summary endpoint answered in this runReport
    fetches,      \* per job name, the test-table requests of this runReport
    rets,         \* value returned by each Collect* call of this runReport
    exit,         \* exit status of the process, -1 while it runs
    statusFailed, \* whether a CollectStatus of this process returned an error
    earlier,      \* outputs of earlier printings of the snapshot t holds
    probe         \* a test-table result handed to addSigToTestResults

vars == <<g, pc, t, visited, rows, summaryResp, fetches, rets, exit,
          statusFailed, earlier, probe>>

(***************************************************************************)
(* Bounds of the model.                                                    *)
(***************************************************************************)
MaxJobs == 2      \* job names a summary response may hold
MaxTests == 1     \* entries of the `tests` array of a test-table response
MaxFrags == 4     \* pieces a test name handed to the sig tagger is built of
MaxTagging == 2   \* applications of addSigToTestResults to one result
MaxPrintings == 2 \* times the report of one snapshot is printed

(***************************************************************************)
(* Strings.                                                                *)
(***************************************************************************)
RECURSIVE Str(_)
Str(cs) == IF cs = <<>> THEN "" ELSE Head(cs) \o Str(Tail(cs))

RECURSIVE Flatten(_)
Flatten(ss) == IF ss = <<>> THEN <<>> ELSE Head(ss) \o Flatten(Tail(ss))

TG_TABGROUP_SUMMARY_FMT(name) == "https://testgrid.k8s.io/" \o name \o "/summary"

TG_JOB_TEST_TABLE_FMT(name, tab, dashboard) ==
    "https://testgrid.k8s.io/" \o name \o "/table?tab=" \o tab
        \o "&width=5&exclude-non-failed-tests=&sort-by-flakiness=&dashboard="
        \o dashboard

\* url.QueryEscape: unreserved characters stay, a space becomes "+", every
\* other byte becomes %XX.
Unreserved == {"a", "b", "c", "d", "e", "f", "g", "x", "y", "z",
               "0", "1", "2", "3", "-", "_", ".", "~"}

EscapeChar(c) ==
    CASE c \in Unreserved -> <<c>>
      [] c = " " -> <<"+">>
      [] c = "/" -> <<"%", "2", "F">>
      [] c = "&" -> <<"%", "2", "6">>
      [] c = "=" -> <<"%", "3", "D">>
      [] c = "+" -> <<"%", "2", "B">>
      [] c = "%" -> <<"%", "2", "5">>

QueryEscape(s) == Flatten([i \in 1..Len(s) |-> EscapeChar(s[i])])

TableUrl(name, jobName) ==
    TG_JOB_TEST_TABLE_FMT(name, Str(QueryEscape(jobName)), name)

(***************************************************************************)
(* addSigToTestResults: regexp `\[sig-.+?\] `, leftmost match, the lazy    *)
(* `.+?` taking as few characters as possible (at least one, never a       *)
(* newline).                                                               *)
(***************************************************************************)
SigOpen == <<"[", "s", "i", "g", "-">>

\* The ends e of matches that start at i: s[i..i+4] = "[sig-", at least one
\* character, then "] " at s[e-1..e].
MatchEnds(s, i) ==
    {e \in (i + 7)..Len(s) :
        /\ SubSeq(s, i, i + 4) = SigOpen
        /\ s[e - 1] = "]"
        /\ s[e] = " "
        /\ \A k \in (i + 5)..(e - 2) : s[k] # "\n"}

Min(S) == CHOOSE x \in S : \A y \in S : x <= y

\* Faulty variant of FindString: the quantifier is greedy (`.+` for `.+?`).
FindStringGreedy(s) ==
    LET starts == {i \in 1..Len(s) : MatchEnds(s, i) # {}}
    IN  IF starts = {} THEN <<>>
        ELSE LET i == Min(starts)
                 e == CHOOSE x \in MatchEnds(s, i) : \A y \in MatchEnds(s, i) : y <= x
             IN  SubSeq(s, i, e)

FindString(s) ==
    LET starts == {i \in 1..Len(s) : MatchEnds(s, i) # {}}
    IN  IF starts = {} THEN <<>>
        ELSE LET i == Min(starts) IN SubSeq(s, i, Min(MatchEnds(s, i)))

SigOf(name) ==
    LET sig == Str(FindString(name))
    IN  IF sig # "" THEN sig ELSE "job-owner"

addSigToTestResults(res) ==
    [res EXCEPT !.Tests = [i \in 1..Len(res.Tests) |->
                              [res.Tests[i] EXCEPT !.sig = SigOf(res.Tests[i].Name),
                                                   !.tagged = @ + 1]]]

(***************************************************************************)
(* What the two endpoints may answer.                                      *)
(***************************************************************************)
JobName(i) ==
    LET c == <<"a", "b", "c", "d", "e", "f", "g">>[((i - 1) % 7) + 1]
    IN  CASE i % 3 = 1 -> <<c>>
          [] i % 3 = 2 -> <<c, "/", "x">>
          [] OTHER -> <<c, " ", "y">>

JobCatalog == {JobName(i) : i \in 1..MaxJobs}

Statuses == {"FLAKY", "FAILING", "PASSING", "UNKNOWN", "FAILED", "",
             "passing", "flaky", "Failing"}

\* A JSON summary body: job name -> overall_status.
SummaryBodies == UNION {[S -> Statuses] : S \in SUBSET JobCatalog}

\* err: what http.Get / ioutil.ReadAll report; code: the HTTP status;
\* json: whether the body parses as a JSON object of job summaries.
SummaryResponses ==
    {[err |-> e, code |-> 0, json |-> FALSE, jobs |-> <<>>] : e \in {"get", "read"}}
    \cup {[err |-> "none", code |-> c, json |-> FALSE, jobs |-> <<>>] : c \in {200, 500}}
    \cup {[err |-> "none", code |-> c, json |-> TRUE, jobs |-> b] :
              c \in {200, 500}, b \in SummaryBodies}

TestNames == {<<"[", "s", "i", "g", "-", "a", "]", " ", "x">>, <<"x">>}

RECURSIVE SeqsUpTo(_, _)
SeqsUpTo(S, n) ==
    IF n = 0 THEN {<<>>}
    ELSE LET shorter == SeqsUpTo(S, n - 1)
         IN  shorter \cup {Append(q, x) : q \in {r \in shorter : Len(r) = n - 1}, x \in S}

\* The `tests` array of a table body, as the display names of its entries.
TableBodies == SeqsUpTo(TestNames, MaxTests)

\* The error of ioutil.ReadAll is overwritten in the two table loops: a body
\* cut short either fails to parse or parses like the whole one, so it adds
\* no outcome to these.
TableResponses ==
    {[err |-> "get", json |-> FALSE, tests |-> <<>>],
     [err |-> "none", json |-> FALSE, tests |-> <<>>]}
    \cup {[err |-> "none", json |-> TRUE, tests |-> b] : b \in TableBodies}

(***************************************************************************)
(* Decoding.                                                               *)
(***************************************************************************)
\* json.Unmarshal into map[string]jobStatus: url and jobTestResults are
\* unexported and keep their zero values.
UnmarshalJobs(body) ==
    [n \in DOMAIN body |->
        [OverallStatus |-> body[n], url |-> "", jobTestResults |-> <<>>]]

\* json.Unmarshal into testGridJobResult: sig is unexported and stays "".
\* tagged counts the assignments to sig; it is no field of the Go struct.
UnmarshalTests(body) ==
    [Tests |-> [i \in 1..Len(body) |->
                   [Name |-> body[i], sig |-> "", tagged |-> 0]]]

(***************************************************************************)
(* main: the two TabGroupStatus values and the order they are run in.      *)
(***************************************************************************)
GroupNames == <<"sig-release-master-blocking", "sig-release-master-informing">>

NumGroups == Len(GroupNames)

NewTabGroupStatus(i) ==
    [Name |-> GroupNames[i],
     TabGroupSummaryUrl |-> TG_TABGROUP_SUMMARY_FMT(GroupNames[i]),
     CollectedAt |-> NumGroups + 1 - i,
     Count |-> 0,
     FlakingJobs |-> <<>>,
     PassingJobs |-> <<>>,
     FailedJobs |-> <<>>]

NoRets == [CollectStatus |-> "pending", CollectFlakyTests |-> "pending",
           CollectFailedTests |-> "pending"]

NoFetches == [n \in JobCatalog |-> <<>>]

\* main hands no result to addSigToTestResults outside the two table loops.
NoProbe == [res |-> UnmarshalTests(<<>>), applied |-> 0]

Init ==
    /\ g = 1
    /\ pc = "CollectStatus"
    /\ t = NewTabGroupStatus(1)
    /\ visited = {}
    /\ rows = <<>>
    /\ summaryResp = <<>>
    /\ fetches = NoFetches
    /\ rets = NoRets
    /\ exit = -1
    /\ statusFailed = FALSE
    /\ earlier = <<>>
    /\ probe = NoProbe

(***************************************************************************)
(* CollectStatus.                                                          *)
(***************************************************************************)
FlakingOf(jobs) ==
    [n \in {m \in DOMAIN jobs : jobs[m].OverallStatus = "FLAKY"} |-> jobs[n]]

\* Faulty variant of FailedOf: the second loop still compares with "FLAKY".
FailedOfFlaky(jobs) ==
    [n \in {m \in DOMAIN jobs : jobs[m].OverallStatus = "FLAKY"} |-> jobs[n]]

FailedOf(jobs) ==
    [n \in {m \in DOMAIN jobs : jobs[m].OverallStatus = "FAILING"} |-> jobs[n]]

\* Faulty variant of PassingOf: the status is compared without regard to case.
PassingOfAnyCase(jobs) ==
    [n \in {m \in DOMAIN jobs : jobs[m].OverallStatus \in {"PASSING", "passing"}}
        |-> jobs[n]]

PassingOf(jobs) ==
    [n \in {m \in DOMAIN jobs : jobs[m].OverallStatus = "PASSING"} |-> jobs[n]]

\* Faulty variant of SummaryFails: the error of json.Unmarshal is dropped.
SummaryFailsUnparsed(r) == r.err # "none"

\* The HTTP status code is never looked at: only a transport error, a read
\* error or an unparseable body make CollectStatus fail.

SummaryFails(r) == r.err # "none" \/ ~r.json

Collected(ts, jobs) ==
    [ts EXCEPT !.FlakingJobs = FlakingOf(jobs),
               !.FailedJobs = FailedOf(jobs),
               !.PassingJobs = PassingOf(jobs),
               !.Count = Cardinality(DOMAIN jobs)]

CollectStatus ==
    /\ pc = "CollectStatus"
    /\ \E r \in SummaryResponses :
          /\ summaryResp' = <<r>>
          /\ IF SummaryFails(r)
             THEN /\ t' = t
                  /\ rets' = [rets EXCEPT !.CollectStatus = "err"]
                  /\ statusFailed' = TRUE
             ELSE /\ t' = Collected(t, UnmarshalJobs(r.jobs))
                  /\ rets' = [rets EXCEPT !.CollectStatus = "nil"]
                  /\ UNCHANGED statusFailed
    /\ pc' = "CollectFlakyTests"
    /\ visited' = {}
    /\ UNCHANGED <<g, rows, fetches, exit, earlier, probe>>

(***************************************************************************)
(* CollectFlakyTests and CollectFailedTests.  One action is one iteration  *)
(* of the range loop; Go visits the keys of a map in an unspecified order, *)
(* each key once.                                                          *)
(***************************************************************************)
TableFails(r) == r.err # "none" \/ ~r.json

\* Faulty variant of Enriched: tmp.url = url is left out.
EnrichedNoUrl(job, res, url) ==
    [job EXCEPT !.jobTestResults = <<addSigToTestResults(res)>>]

\* Faulty variant of Enriched: addSigToTestResults is not called.
EnrichedUntagged(job, res, url) ==
    [job EXCEPT !.jobTestResults = <<res>>, !.url = url]

\* tmp := bucket[jobName]; addSigToTestResults(&res); tmp.jobTestResults =
\* &res; tmp.url = url
Enriched(job, res, url) ==
    [job EXCEPT !.jobTestResults = <<addSigToTestResults(res)>>, !.url = url]

\* bucket[jobName]: a missing key reads as the zero jobStatus.
Lookup(bucket, jobName) ==
    IF jobName \in DOMAIN bucket THEN bucket[jobName]
    ELSE [OverallStatus |-> "", url |-> "", jobTestResults |-> <<>>]

\* t.FlakingJobs[jobName] = tmp
StoreFlaking(ts, jobName, tmp) ==
    [ts EXCEPT !.FlakingJobs = (jobName :> tmp) @@ @]

\* Faulty variant of StoreFailed: the record is also written to PassingJobs.
StoreFailedAndPassing(ts, jobName, tmp) ==
    [ts EXCEPT !.FailedJobs = (jobName :> tmp) @@ @,
               !.PassingJobs = [n \in DOMAIN @ |-> tmp]]

\* t.FailedJobs[jobName] = tmp
StoreFailed(ts, jobName, tmp) ==
    [ts EXCEPT !.FailedJobs = (jobName :> tmp) @@ @]

\* for jobName := range t.FlakingJobs / t.FailedJobs: the keys still to come.
FlakyRange == DOMAIN t.FlakingJobs \ visited

\* Faulty variant of FailedRange: the loop ranges over t.FlakingJobs again.
FailedRangeOverFlaking == DOMAIN t.FlakingJobs \ visited

FailedRange == DOMAIN t.FailedJobs \ visited

Fetched(jobName, url, r) ==
    [fetches EXCEPT ![jobName] = Append(@, [url |-> url, resp |-> r])]

\* Faulty variant of CollectFlakyTestsStep: a job whose fetch or parse fails
\* is skipped and the loop goes on with the next job.
CollectFlakyTestsStepSkip ==
    /\ pc = "CollectFlakyTests"
    /\ \E jobName \in FlakyRange, r \in TableResponses :
          LET url == TableUrl(t.Name, jobName) IN
          /\ fetches' = Fetched(jobName, url, r)
          /\ t' = IF TableFails(r) THEN t
                  ELSE StoreFlaking(t, jobName,
                           Enriched(Lookup(t.FlakingJobs, jobName),
                                    UnmarshalTests(r.tests), url))
          /\ visited' = visited \cup {jobName}
    /\ UNCHANGED <<g, pc, rows, summaryResp, rets, exit, statusFailed, earlier, probe>>

\* Faulty variant of CollectFlakyTestsStep: runReport gives up on the error
\* of CollectFlakyTests and CollectFailedTests is not called.
CollectFlakyTestsStepAbort ==
    /\ pc = "CollectFlakyTests"
    /\ \E jobName \in FlakyRange, r \in TableResponses :
          LET url == TableUrl(t.Name, jobName) IN
          /\ fetches' = Fetched(jobName, url, r)
          /\ IF TableFails(r)
             THEN /\ rets' = [rets EXCEPT !.CollectFlakyTests = "err"]
                  /\ pc' = "return"
                  /\ visited' = {}
                  /\ t' = t
             ELSE /\ t' = StoreFlaking(t, jobName,
                                Enriched(Lookup(t.FlakingJobs, jobName),
                                         UnmarshalTests(r.tests), url))
                  /\ visited' = visited \cup {jobName}
                  /\ UNCHANGED <<rets, pc>>
    /\ UNCHANGED <<g, rows, summaryResp, exit, statusFailed, earlier, probe>>

CollectFlakyTestsStep ==
    /\ pc = "CollectFlakyTests"
    /\ \E jobName \in FlakyRange, r \in TableResponses :
          LET url == TableUrl(t.Name, jobName) IN
          /\ fetches' = Fetched(jobName, url, r)
          /\ IF TableFails(r)
             THEN /\ rets' = [rets EXCEPT !.CollectFlakyTests = "err"]
                  /\ pc' = "CollectFailedTests"
                  /\ visited' = {}
                  /\ t' = t
             ELSE /\ t' = StoreFlaking(t, jobName,
                                Enriched(Lookup(t.FlakingJobs, jobName),
                                         UnmarshalTests(r.tests), url))
                  /\ visited' = visited \cup {jobName}
                  /\ UNCHANGED <<rets, pc>>
    /\ UNCHANGED <<g, rows, summaryResp, exit, statusFailed, earlier, probe>>

CollectFlakyTestsReturn ==
    /\ pc = "CollectFlakyTests"
    /\ FlakyRange = {}
    /\ rets' = [rets EXCEPT !.CollectFlakyTests = "nil"]
    /\ pc' = "CollectFailedTests"
    /\ visited' = {}
    /\ UNCHANGED <<g, t, rows, summaryResp, fetches, exit, statusFailed, earlier, probe>>

CollectFailedTestsStep ==
    /\ pc = "CollectFailedTests"
    /\ \E jobName \in FailedRange, r \in TableResponses :
          LET url == TableUrl(t.Name, jobName) IN
          /\ fetches' = Fetched(jobName, url, r)
          /\ IF TableFails(r)
             THEN /\ rets' = [rets EXCEPT !.CollectFailedTests = "err"]
                  /\ pc' = "EmitFlaking"
                  /\ visited' = {}
                  /\ t' = t
             ELSE /\ t' = StoreFailed(t, jobName,
                                Enriched(Lookup(t.FailedJobs, jobName),
                                         UnmarshalTests(r.tests), url))
                  /\ visited' = visited \cup {jobName}
                  /\ UNCHANGED <<rets, pc>>
    /\ UNCHANGED <<g, rows, summaryResp, exit, statusFailed, earlier, probe>>

CollectFailedTestsReturn ==
    /\ pc = "CollectFailedTests"
    /\ FailedRange = {}
    /\ rets' = [rets EXCEPT !.CollectFailedTests = "nil"]
    /\ pc' = "EmitFlaking"
    /\ visited' = {}
    /\ UNCHANGED <<g, t, rows, summaryResp, fetches, exit, statusFailed, earlier, probe>>

(***************************************************************************)
(* The three printing loops of runReport.  One action is one iteration of  *)
(* the outer loop, that is all the rows of one job.                        *)
(***************************************************************************)
Row(ts, jobName, job, sig, test) ==
    [CollectedAt |-> ts.CollectedAt, OverallStatus |-> job.OverallStatus,
     jobName |-> Str(jobName), sig |-> sig, test |-> test, url |-> job.url]

\* Faulty variant of TestRows: the last test of the job is not printed.
TestRowsButLast(ts, jobName, job) ==
    LET tests == job.jobTestResults[1].Tests
    IN  [i \in 1..(Len(tests) - 1) |->
            Row(ts, jobName, job, tests[i].sig, Str(tests[i].Name))]

\* for _, test := range job.jobTestResults.Tests { fmt.Printf(...) }
TestRows(ts, jobName, job) ==
    LET tests == job.jobTestResults[1].Tests
    IN  [i \in 1..Len(tests) |->
            Row(ts, jobName, job, tests[i].sig, Str(tests[i].Name))]

PassingRow(ts, jobName, job) == Row(ts, jobName, job, "", "")

\* job.jobTestResults.Tests with a nil jobTestResults: nil pointer dereference.
Derefs(job) == job.jobTestResults # <<>>

Panic ==
    /\ pc' = "panic"
    /\ exit' = 2
    /\ UNCHANGED <<g, t, visited, rows, summaryResp, fetches, rets, statusFailed, earlier, probe>>

EmitFlaking ==
    /\ pc = "EmitFlaking"
    /\ \E jobName \in DOMAIN t.FlakingJobs \ visited :
          IF Derefs(t.FlakingJobs[jobName])
          THEN /\ rows' = rows \o TestRows(t, jobName, t.FlakingJobs[jobName])
               /\ visited' = visited \cup {jobName}
               /\ UNCHANGED <<g, pc, t, summaryResp, fetches, rets, exit, statusFailed, earlier, probe>>
          ELSE Panic

EmitFlakingDone ==
    /\ pc = "EmitFlaking"
    /\ DOMAIN t.FlakingJobs \ visited = {}
    /\ pc' = "EmitFailed"
    /\ visited' = {}
    /\ UNCHANGED <<g, t, rows, summaryResp, fetches, rets, exit, statusFailed, earlier, probe>>

EmitFailed ==
    /\ pc = "EmitFailed"
    /\ \E jobName \in DOMAIN t.FailedJobs \ visited :
          IF Derefs(t.FailedJobs[jobName])
          THEN /\ rows' = rows \o TestRows(t, jobName, t.FailedJobs[jobName])
               /\ visited' = visited \cup {jobName}
               /\ UNCHANGED <<g, pc, t, summaryResp, fetches, rets, exit, statusFailed, earlier, probe>>
          ELSE Panic

EmitFailedDone ==
    /\ pc = "EmitFailed"
    /\ DOMAIN t.FailedJobs \ visited = {}
    /\ pc' = "EmitPassing"
    /\ visited' = {}
    /\ UNCHANGED <<g, t, rows, summaryResp, fetches, rets, exit, statusFailed, earlier, probe>>

EmitPassing ==
    /\ pc = "EmitPassing"
    /\ \E jobName \in DOMAIN t.PassingJobs \ visited :
          /\ rows' = Append(rows, PassingRow(t, jobName, t.PassingJobs[jobName]))
          /\ visited' = visited \cup {jobName}
    /\ UNCHANGED <<g, pc, t, summaryResp, fetches, rets, exit, statusFailed, earlier, probe>>

EmitPassingDone ==
    /\ pc = "EmitPassing"
    /\ DOMAIN t.PassingJobs \ visited = {}
    /\ pc' = "return"
    /\ visited' = {}
    /\ UNCHANGED <<g, t, rows, summaryResp, fetches, rets, exit, statusFailed, earlier, probe>>

(***************************************************************************)
(* main: runReport(tgBlocking); runReport(tgInforming); then the process   *)
(* ends with status 0.  The TabGroupStatus of a finished runReport is not  *)
(* read again, and the per-call records start afresh with the next call.   *)
(***************************************************************************)
NextReport ==
    /\ pc = "return"
    /\ g < NumGroups
    /\ g' = g + 1
    /\ pc' = "CollectStatus"
    /\ t' = NewTabGroupStatus(g + 1)
    /\ visited' = {}
    /\ rows' = <<>>
    /\ summaryResp' = <<>>
    /\ fetches' = NoFetches
    /\ rets' = NoRets
    /\ earlier' = <<>>
    /\ UNCHANGED <<exit, statusFailed, probe>>

Exit ==
    /\ pc = "return"
    /\ g = NumGroups
    /\ pc' = "exit"
    /\ exit' = 0
    /\ UNCHANGED <<g, t, visited, rows, summaryResp, fetches, rets, statusFailed, earlier, probe>>

Next ==
    \/ CollectStatus
    \/ CollectFlakyTestsStep
    \/ CollectFlakyTestsReturn
    \/ CollectFailedTestsStep
    \/ CollectFailedTestsReturn
    \/ EmitFlaking
    \/ EmitFlakingDone
    \/ EmitFailed
    \/ EmitFailedDone
    \/ EmitPassing
    \/ EmitPassingDone
    \/ NextReport
    \/ Exit

Spec == Init /\ [][Next]_vars

(***************************************************************************)
(* Printing again: the three printing loops of runReport run once more on  *)
(* the snapshot they have just printed, which nothing has changed since.   *)
(***************************************************************************)
PrintAgain ==
    /\ pc = "return"
    /\ Len(earlier) + 1 < MaxPrintings
    /\ earlier' = Append(earlier, rows)
    /\ rows' = <<>>
    /\ pc' = "EmitFlaking"
    /\ visited' = {}
    /\ UNCHANGED <<g, t, summaryResp, fetches, rets, exit, statusFailed, probe>>

NextPrintAgain == Next \/ PrintAgain

SpecPrintAgain == Init /\ [][NextPrintAgain]_vars

(***************************************************************************)
(* Sig tagging on its own: a decoded test table whose display names are    *)
(* built of the pieces of the pattern is attached to a job record the way  *)
(* the two table loops do it, and addSigToTestResults is then applied to   *)
(* the attached result again, MaxTagging times in all at most.             *)
(***************************************************************************)
SigFragments ==
    {SigOpen, <<"a">>, <<"]">>, <<" ">>, <<"]", " ">>, <<"\n">>,
     <<"[", "s", "i", "g", "-", "b", "]", " ">>}

SigNames == {Flatten(fs) : fs \in SeqsUpTo(SigFragments, MaxFrags)}

\* One name of SigNames, alone or followed by a name of TestNames.
SigTables == {<<n>> : n \in SigNames} \cup {<<n, m>> : n \in SigNames, m \in TestNames}

InitSig ==
    /\ g = 1
    /\ pc = "CollectStatus"
    /\ t = NewTabGroupStatus(1)
    /\ visited = {}
    /\ rows = <<>>
    /\ summaryResp = <<>>
    /\ fetches = NoFetches
    /\ rets = NoRets
    /\ exit = -1
    /\ statusFailed = FALSE
    /\ earlier = <<>>
    /\ probe \in {[res |-> UnmarshalTests(b), applied |-> 0] : b \in SigTables}

\* The body of a table loop after a successful parse, on the zero jobStatus.
SigEnrich ==
    /\ probe.applied = 0
    /\ probe' = [res |-> Enriched(Lookup(<<>>, <<>>), probe.res, "").jobTestResults[1],
                 applied |-> 1]
    /\ UNCHANGED <<g, pc, t, visited, rows, summaryResp, fetches, rets, exit,
                   statusFailed, earlier>>

\* addSigToTestResults once more on the attached result.
SigTag ==
    /\ probe.applied >= 1
    /\ probe.applied < MaxTagging
    /\ probe' = [res |-> addSigToTestResults(probe.res),
                 applied |-> probe.applied + 1]
    /\ UNCHANGED <<g, pc, t, visited, rows, summaryResp, fetches, rets, exit,
                   statusFailed, earlier>>

NextSig == SigEnrich \/ SigTag

SpecSig == InitSig /\ [][NextSig]_vars

(***************************************************************************)
(* Properties.                                                             *)
(***************************************************************************)
Buckets == <<t.FlakingJobs, t.FailedJobs, t.PassingJobs>>

StatusCollected == rets.CollectStatus = "nil"

\* The summary body the running runReport received (job name -> status).
SummaryJobs == summaryResp[1].jobs

HasStatus(n, status) == n \in DOMAIN SummaryJobs /\ SummaryJobs[n] = status

\* C1: after a successful CollectStatus a job is in FlakingJobs iff its
\* overall_status is exactly "FLAKY", in FailedJobs iff exactly "FAILING",
\* in PassingJobs iff exactly "PASSING"; a job with any other status is in
\* none of the three maps; Count is the number of jobs of the response.
C1_Classification ==
    StatusCollected =>
        /\ \A n \in JobCatalog :
              /\ n \in DOMAIN t.FlakingJobs <=> HasStatus(n, "FLAKY")
              /\ n \in DOMAIN t.FailedJobs <=> HasStatus(n, "FAILING")
              /\ n \in DOMAIN t.PassingJobs <=> HasStatus(n, "PASSING")
              /\ (n \in DOMAIN SummaryJobs
                    /\ SummaryJobs[n] \notin {"FLAKY", "FAILING", "PASSING"})
                    => \A i \in 1..3 : n \notin DOMAIN Buckets[i]
        /\ t.Count = Cardinality(DOMAIN SummaryJobs)

\* A response with a job of a status outside the vocabulary next to a
\* flaking one has been classified.
C1_Witness ==
    /\ StatusCollected
    /\ \E n, m \in DOMAIN SummaryJobs :
          /\ SummaryJobs[n] = "FLAKY"
          /\ SummaryJobs[m] \in {"UNKNOWN", "FAILED", "", "passing"}
    /\ t.Count = 2
    /\ Cardinality(DOMAIN t.FlakingJobs) = 1

\* C2: in every state of a run each job name is a key of at most one of
\* FlakingJobs, FailedJobs and PassingJobs, and the three maps together hold
\* at most Count keys.
C2_Partition ==
    /\ \A i, j \in 1..3 : i # j => DOMAIN Buckets[i] \cap DOMAIN Buckets[j] = {}
    /\ Cardinality(DOMAIN t.FlakingJobs) + Cardinality(DOMAIN t.FailedJobs)
          + Cardinality(DOMAIN t.PassingJobs) <= t.Count

\* Enrichment of the failing bucket is under way after a flaking job was
\* enriched.
C2_Witness ==
    /\ pc = "CollectFailedTests"
    /\ visited # {}
    /\ \E n \in DOMAIN t.FlakingJobs : t.FlakingJobs[n].jobTestResults # <<>>

SummaryFailed ==
    /\ summaryResp # <<>>
    /\ summaryResp[1].err # "none" \/ ~summaryResp[1].json

\* C3: when the summary fetch fails in transport or its body does not
\* parse, CollectStatus returns an error and leaves the three maps and Count
\* as they were before the call; the runReport then requests no test table
\* and prints no row.
C3_SummaryFailure ==
    SummaryFailed =>
        /\ rets.CollectStatus = "err"
        /\ t = NewTabGroupStatus(g)
        /\ fetches = NoFetches
        /\ rows = <<>>

\* A runReport whose summary body did not parse has run to its end.
C3_Witness ==
    /\ SummaryFailed
    /\ summaryResp[1].err = "none"
    /\ pc = "return"

\* C4: a non-2xx answer of the summary endpoint is a fetch failure whatever
\* its body holds: CollectStatus returns an error, no job is put in a bucket
\* and no row is printed.
C4_Non2xxFails ==
    (/\ summaryResp # <<>>
     /\ summaryResp[1].err = "none"
     /\ summaryResp[1].code \notin 200..299)
        => /\ rets.CollectStatus = "err"
           /\ \A i \in 1..3 : DOMAIN Buckets[i] = {}
           /\ rows = <<>>

\* C5: the printing loops of runReport cannot fail: whatever the Collect*
\* calls left behind, the process does not crash while printing.
C5_EmitNeverCrashes == pc # "panic"

(***************************************************************************)
(* Enrichment.                                                             *)
(***************************************************************************)
LastFetch(n) == fetches[n][Len(fetches[n])]

FetchFailed(n) == fetches[n] # <<>> /\ TableFails(LastFetch(n).resp)

FetchOk(n) == fetches[n] # <<>> /\ ~TableFails(LastFetch(n).resp)

Unenriched(job) == job.jobTestResults = <<>> /\ job.url = ""

\* job carries the whole `tests` array of fetch f, every entry with a sig
\* label, and the URL f was sent to.
EnrichedFrom(job, f) ==
    /\ Len(job.jobTestResults) = 1
    /\ LET tests == job.jobTestResults[1].Tests IN
          /\ Len(tests) = Len(f.resp.tests)
          /\ \A i \in 1..Len(tests) :
                tests[i].Name = f.resp.tests[i] /\ tests[i].sig # ""
    /\ job.url = f.url
    /\ job.url # ""

\* What C6 asks of one bucket once a fetch for one of its jobs has failed.
FailFast(bucket, ret) ==
    /\ (\E n \in DOMAIN bucket : FetchFailed(n)) <=> ret = "err"
    /\ ret = "err" =>
          /\ Cardinality({n \in DOMAIN bucket : FetchFailed(n)}) = 1
          /\ \A n \in DOMAIN bucket :
                /\ Len(fetches[n]) <= 1
                /\ (fetches[n] = <<>> \/ FetchFailed(n)) => Unenriched(bucket[n])
                /\ FetchOk(n) => EnrichedFrom(bucket[n], LastFetch(n))

\* No request for a job of the bucket is made once ret is an error.
NoFurtherFetch(bucket, ret) ==
    (ret = "err" /\ pc' # "CollectStatus")
        => \A n \in DOMAIN bucket : fetches'[n] = fetches[n]

\* C6: when the table fetch or the parse fails for a job, CollectFlakyTests
\* (CollectFailedTests) returns the error at once: no further job of the
\* bucket is fetched, the failing job and the jobs not yet visited keep no
\* test list and an empty URL, and the jobs enriched before keep theirs.
C6_FailFast ==
    /\ [](/\ FailFast(t.FlakingJobs, rets.CollectFlakyTests)
          /\ FailFast(t.FailedJobs, rets.CollectFailedTests))
    /\ [][/\ NoFurtherFetch(t.FlakingJobs, rets.CollectFlakyTests)
          /\ NoFurtherFetch(t.FailedJobs, rets.CollectFailedTests)]_vars

\* CollectFlakyTests has returned an error with one job enriched before the
\* failing one.
C6_Witness ==
    /\ rets.CollectFlakyTests = "err"
    /\ \E n, m \in DOMAIN t.FlakingJobs :
          /\ FetchOk(n) /\ t.FlakingJobs[n].jobTestResults # <<>>
          /\ FetchFailed(m)

\* C7: every job record is either unenriched (no test list, empty URL) or
\* enriched from one successful fetch: its test list is the whole `tests`
\* array of that response with a sig label on every entry, and its URL is
\* the one the fetch used.
C7_AllOrNothing ==
    \A i \in 1..3 : \A n \in DOMAIN Buckets[i] :
        \/ Unenriched(Buckets[i][n])
        \/ /\ Len(fetches[n]) = 1
           /\ FetchOk(n)
           /\ LastFetch(n).url = TableUrl(t.Name, n)
           /\ EnrichedFrom(Buckets[i][n], LastFetch(n))

\* A failed job carries a test list whose entry is tagged with its marker.
C7_Witness ==
    \E n \in DOMAIN t.FailedJobs :
        /\ t.FailedJobs[n].jobTestResults # <<>>
        /\ t.FailedJobs[n].url # ""
        /\ \E i \in 1..Len(t.FailedJobs[n].jobTestResults[1].Tests) :
              t.FailedJobs[n].jobTestResults[1].Tests[i].sig = "[sig-a] "

\* C8: CollectFlakyTests and CollectFailedTests leave PassingJobs alone:
\* every record of PassingJobs is the one CollectStatus stored, with no test
\* list and no URL.
C8_PassingUntouched ==
    \A n \in DOMAIN t.PassingJobs :
        /\ StatusCollected
        /\ HasStatus(n, "PASSING")
        /\ t.PassingJobs[n] =
              [OverallStatus |-> SummaryJobs[n], url |-> "", jobTestResults |-> <<>>]

\* A runReport with a passing job has enriched a failed job and returned.
C8_Witness ==
    /\ pc = "return"
    /\ DOMAIN t.PassingJobs # {}
    /\ \E n \in DOMAIN t.FailedJobs : t.FailedJobs[n].jobTestResults # <<>>

AllSucceeded ==
    /\ rets.CollectStatus = "nil"
    /\ rets.CollectFlakyTests = "nil"
    /\ rets.CollectFailedTests = "nil"

\* C9: in a run where every fetch succeeds the test table is requested
\* once for each job of FlakingJobs, once for each job of FailedJobs, and
\* never for a passing job or a job outside the three buckets.
C9_OneFetchPerJob ==
    /\ \A n \in JobCatalog \ (DOMAIN t.FlakingJobs \cup DOMAIN t.FailedJobs) :
          fetches[n] = <<>>
    /\ AllSucceeded =>
          \A n \in DOMAIN t.FlakingJobs \cup DOMAIN t.FailedJobs :
              Len(fetches[n]) = 1 /\ LastFetch(n).url = TableUrl(t.Name, n)

\* Every fetch of a run with a flaking, a failed and no other job succeeded;
\* or with a flaking and a passing job.
C9_Witness ==
    /\ AllSucceeded
    /\ DOMAIN t.FlakingJobs # {}
    /\ DOMAIN t.FailedJobs # {} \/ DOMAIN t.PassingJobs # {}

RECURSIVE SumTests(_)
SumTests(bucket) ==
    IF DOMAIN bucket = {} THEN 0
    ELSE LET n == CHOOSE m \in DOMAIN bucket : TRUE
         IN  Len(bucket[n].jobTestResults[1].Tests)
               + SumTests([m \in DOMAIN bucket \ {n} |-> bucket[m]])

RowsOf(n) == {i \in 1..Len(rows) : rows[i].jobName = Str(n)}

\* C10: when collection and enrichment all succeed, runReport prints as
\* many rows as FlakingJobs and FailedJobs hold tests plus one per job of
\* PassingJobs; the row of a passing job has empty sig and test name.
C10_RowCount ==
    (AllSucceeded /\ pc = "return") =>
        /\ Len(rows) = SumTests(t.FlakingJobs) + SumTests(t.FailedJobs)
                         + Cardinality(DOMAIN t.PassingJobs)
        /\ \A n \in DOMAIN t.PassingJobs :
              /\ Cardinality(RowsOf(n)) = 1
              /\ \A i \in RowsOf(n) : rows[i].sig = "" /\ rows[i].test = ""

\* The report of a flaking job with a test and of a passing job is complete.
C10_Witness ==
    /\ AllSucceeded
    /\ pc = "return"
    /\ DOMAIN t.PassingJobs # {}
    /\ \E n \in DOMAIN t.FlakingJobs : t.FlakingJobs[n].jobTestResults[1].Tests # <<>>
    /\ Len(rows) >= 2

(***************************************************************************)
(* Sig tagging.                                                            *)
(***************************************************************************)
\* w has the shape `[sig-<name>] `: "[sig-", at least one character, "] ".
\* With anyChar the characters of <name> are free; without, none of them is
\* a line break.
HasMarkerShape(w, anyChar) ==
    /\ Len(w) >= 8
    /\ SubSeq(w, 1, 5) = <<"[", "s", "i", "g", "-">>
    /\ w[Len(w) - 1] = "]"
    /\ w[Len(w)] = " "
    /\ anyChar \/ \A k \in 6..(Len(w) - 2) : w[k] # "\n"

MarkerSpans(s, anyChar) ==
    {p \in (1..Len(s)) \X (1..Len(s)) :
        p[1] <= p[2] /\ HasMarkerShape(SubSeq(s, p[1], p[2]), anyChar)}

\* The label the claim asks for: the first marker of s, as short as it can
\* be, or "job-owner".
ExpectedSig(s, anyChar) ==
    LET spans == MarkerSpans(s, anyChar)
    IN  IF spans = {} THEN "job-owner"
        ELSE LET p == CHOOSE q \in spans : \A r \in spans :
                          q[1] < r[1] \/ (q[1] = r[1] /\ q[2] <= r[2])
             IN  Str(SubSeq(s, p[1], p[2]))

TaggedAs(anyChar) ==
    probe.applied >= 1 =>
        \A i \in 1..Len(probe.res.Tests) :
            /\ probe.res.Tests[i].sig = ExpectedSig(probe.res.Tests[i].Name, anyChar)
            /\ probe.res.Tests[i].sig # ""

\* C11 as stated: the label is the first substring `[sig-<name>] ` of the
\* display name, <name> being one or more characters of any kind, matched as
\* short as possible, and "job-owner" when there is none; never empty.
C11_SigLabelAnyChar == TaggedAs(TRUE)

\* C11: the label is the first substring `[sig-<name>] ` of the display
\* name, <name> being one or more characters none of which is a line break,
\* matched as short as possible, brackets and trailing space included, and
\* "job-owner" when there is none; the label is never empty after tagging.
C11_SigLabel == TaggedAs(FALSE)

\* A tagged table whose first name holds a marker after other text and
\* whose second name holds none.
C11_Witness ==
    /\ probe.applied >= 1
    /\ Len(probe.res.Tests) = 2
    /\ probe.res.Tests[1].sig = "[sig-a] "
    /\ probe.res.Tests[1].Name[1] # "["
    /\ probe.res.Tests[2].sig = "job-owner"

\* The fields of the Go struct of every entry of res.
Fields(res) == [i \in 1..Len(res.Tests) |->
                   [Name |-> res.Tests[i].Name, sig |-> res.Tests[i].sig]]

\* C12: a fetched test table is tagged exactly once per entry when it is
\* attached to its job, and tagging is idempotent: applying
\* addSigToTestResults again to the tagged result leaves the sig label and
\* every other field of every entry as they were.
C12_TagOnceIdempotent ==
    /\ [](probe.applied = 1 =>
            \A i \in 1..Len(probe.res.Tests) : probe.res.Tests[i].tagged = 1)
    /\ [][probe.applied >= 1 => Fields(probe'.res) = Fields(probe.res)]_vars

\* A table with a marked and an unmarked name has been tagged a second time.
C12_Witness ==
    /\ probe.applied = 2
    /\ Len(probe.res.Tests) = 2
    /\ probe.res.Tests[1].sig = "[sig-b] "
    /\ probe.res.Tests[2].sig = "job-owner"

(***************************************************************************)
(* Case of the status strings.                                             *)
(***************************************************************************)
\* status is canon spelled with other letter case.
CaseVariant(status, canon) ==
    \/ canon = "PASSING" /\ status = "passing"
    \/ canon = "FLAKY" /\ status = "flaky"
    \/ canon = "FAILING" /\ status = "Failing"

InNoBucket(n) == \A i \in 1..3 : n \notin DOMAIN Buckets[i]

\* C13 as stated: "FLAKY" and "FAILING" are matched exact-case and "PASSING"
\* without regard to case: a case variant of "PASSING" is put in PassingJobs,
\* a case variant of "FLAKY" or "FAILING" in no bucket.
C13_PassingAnyCase ==
    StatusCollected =>
        \A n \in DOMAIN SummaryJobs :
            /\ CaseVariant(SummaryJobs[n], "PASSING") => n \in DOMAIN t.PassingJobs
            /\ (CaseVariant(SummaryJobs[n], "FLAKY")
                  \/ CaseVariant(SummaryJobs[n], "FAILING")) => InNoBucket(n)

\* C13: all three statuses are matched exact-case: a case variant of
\* "PASSING", "FLAKY" or "FAILING" is put in no bucket.
C13_ExactCase ==
    StatusCollected =>
        \A n \in DOMAIN SummaryJobs :
            (\E canon \in {"PASSING", "FLAKY", "FAILING"} :
                CaseVariant(SummaryJobs[n], canon)) => InNoBucket(n)

\* A summary with a "passing" and a "flaky" job has been collected.
C13_Witness ==
    /\ StatusCollected
    /\ \E n, m \in DOMAIN SummaryJobs :
          SummaryJobs[n] = "passing" /\ SummaryJobs[m] = "flaky"
    /\ t.Count = 2

\* C14: when CollectStatus has failed for one of the groups, the process
\* ends with a status other than zero.
C14_ExitNonZero ==
    (pc \in {"exit", "panic"} /\ statusFailed) => exit # 0

\* C15: printing the report of an unchanged snapshot again gives the same
\* rows in the same order as before.
C15_SameOutput ==
    (pc = "return" /\ earlier # <<>>) =>
        \A i \in 1..Len(earlier) : earlier[i] = rows

\* C16: an error returned by CollectFlakyTests does not stop the enrichment
\* of the failing bucket: CollectFailedTests is called next, and once it has
\* returned it has requested the table of a job of FailedJobs if there is
\* one, and of every job of FailedJobs if it returned nil.
C16_FailedStillCollected ==
    rets.CollectFlakyTests = "err" =>
        /\ pc # "CollectFailedTests" =>
              /\ rets.CollectFailedTests \in {"nil", "err"}
              /\ DOMAIN t.FailedJobs # {} =>
                    \E n \in DOMAIN t.FailedJobs : fetches[n] # <<>>
              /\ rets.CollectFailedTests = "nil" =>
                    \A n \in DOMAIN t.FailedJobs :
                        Len(fetches[n]) = 1 /\ t.FailedJobs[n].jobTestResults # <<>>
        /\ pc = "CollectFailedTests" => rets.CollectFailedTests = "pending"

\* CollectFlakyTests returned an error and CollectFailedTests enriched a
\* failed job afterwards.
C16_Witness ==
    /\ rets.CollectFlakyTests = "err"
    /\ rets.CollectFailedTests = "nil"
    /\ \E n \in DOMAIN t.FailedJobs : t.FailedJobs[n].jobTestResults # <<>>
====
